---- MODULE Spec2Model ----
(***************************************************************************)
(* molecule/interpolation.py: Interpolator.interpolate and                 *)
(* TemplateWithDefaults.substitute.                                        *)
(*                                                                         *)
(* A text is a sequence of one-character strings.  The regular expression  *)
(* string.Template compiles from idpattern is modelled by the operators    *)
(* idpattern and pattern; re.sub's loop over the matches is the state      *)
(* machine: one action per branch of convert, one for the end of the scan. *)
(***************************************************************************)
EXTENDS Naturals, Sequences, FiniteSets, TLC

\* Longest free text handed to interpolate.
MaxLen == 4
\* Longest body b of a text of the form ${b} handed to interpolate.
MaxBody == 5
\* Number of interpolate calls on one Interpolator (the second one is fed
\* the first one's output).
MaxCalls == 2

VARIABLES
    mapping,      \* Interpolator.mapping
    string,       \* the argument of interpolate
    keep_string,  \* the argument keep_string (<<>> is None or "")
    template,     \* Template.template
    pos,          \* re.sub: where the search for the next match starts
    buf,          \* re.sub: the output assembled so far
    status,       \* "idle", "scanning", "returned", "raised"
    result,       \* <<>> (nothing returned) or <<s>> (s was returned)
    exc,          \* <<>> or <<e>>, e the InvalidInterpolation raised
    calls         \* interpolate calls made so far

vars == <<mapping, string, keep_string, template, pos, buf, status, result,
          exc, calls>>

---------------------------------------------------------------------------
(* Inputs *)

Alphabet == {"$", "{", "}", "-", "X", "Y", "1"}
BodyAlphabet == {"$", "-", ":", "X", "Y"}

SeqsUpTo(S, n) == UNION {[1..k -> S] : k \in 0..n}

FreeTexts == SeqsUpTo(Alphabet, MaxLen)
BracedTexts == {<<"$", "{">> \o b \o <<"}">> : b \in SeqsUpTo(BodyAlphabet, MaxBody)}
Templates == FreeTexts \cup BracedTexts

Keys == {<<"X">>, <<"Y">>}
ValuesOf(k) == IF k = <<"X">> THEN {<<>>, <<"v">>} ELSE {<<"$", "X">>}
Mappings ==
    UNION {{m \in [K -> {<<>>, <<"v">>, <<"$", "X">>}] :
              \A k \in K : m[k] \in ValuesOf(k)} : K \in SUBSET Keys}

KeepStrings == {<<>>, <<"X">>}

---------------------------------------------------------------------------
(* The pattern *)

\* [_a-z] and [_a-z0-9] under re.IGNORECASE, over the characters in use.
IsIdStart(c) == c \in {"_", "X", "Y", "v", "x", "y"}
IsIdCont(c) == IsIdStart(c) \/ c \in {"0", "1"}

RECURSIVE ContEnd(_, _)
\* [_a-z0-9]* from index j, greedy: the index of the last character taken.
ContEnd(t, j) ==
    IF j <= Len(t) /\ IsIdCont(t[j]) THEN ContEnd(t, j + 1) ELSE j - 1

\* [_a-z][_a-z0-9]* at index i: the index of its last character, 0 if none.
NameEnd(t, i) ==
    IF i <= Len(t) /\ IsIdStart(t[i]) THEN ContEnd(t, i + 1) ELSE 0

RECURSIVE RunEnd(_, _)
\* [^}]* from index j, greedy: the index of the last character taken.
RunEnd(t, j) ==
    IF j <= Len(t) /\ t[j] # "}" THEN RunEnd(t, j + 1) ELSE j - 1

\* idpattern = [_a-z][_a-z0-9]*(?::?-[^}]+)? at index i: the index of the
\* last character of the greedy match, 0 if there is none.
idpattern(t, i) ==
    LET n == NameEnd(t, i)
        o == IF n + 2 <= Len(t) /\ t[n + 1] = ":" /\ t[n + 2] = "-" THEN n + 2
             ELSE IF n + 1 <= Len(t) /\ t[n + 1] = "-" THEN n + 1
             ELSE 0
        d == IF o = 0 THEN 0 ELSE RunEnd(t, o + 1)
    IN  IF n = 0 THEN 0
        ELSE IF o # 0 /\ d > o THEN d
        ELSE n

RECURSIVE FindDelimiter(_, _)
\* The first "$" at index >= i, 0 if none.
FindDelimiter(t, i) ==
    IF i > Len(t) THEN 0
    ELSE IF t[i] = "$" THEN i
    ELSE FindDelimiter(t, i + 1)

\* Template.pattern searched from index p:
\*   \$(?:(?P<escaped>\$)|(?P<named>id)|{(?P<braced>id)}|(?P<invalid>))
\* The braced alternative matches only if the greedy idpattern match is
\* followed by "}": a shorter default run is followed by a character other
\* than "}", no default part leaves ":" or "-" there, and a shorter name
\* leaves an identifier character there.
pattern(t, p) ==
    LET i  == FindDelimiter(t, p)
        c  == IF i < Len(t) THEN t[i + 1] ELSE ""
        ne == idpattern(t, i + 1)
        be == idpattern(t, i + 2)
    IN  IF i = 0
        THEN [kind |-> "none", start |-> Len(t) + 1, end |-> Len(t),
              group |-> <<>>]
        ELSE IF c = "$"
        THEN [kind |-> "escaped", start |-> i, end |-> i + 1,
              group |-> <<"$">>]
        ELSE IF ne # 0
        THEN [kind |-> "named", start |-> i, end |-> ne,
              group |-> SubSeq(t, i + 1, ne)]
        ELSE IF c = "{" /\ be # 0 /\ be < Len(t) /\ t[be + 1] = "}"
        THEN [kind |-> "braced", start |-> i, end |-> be + 1,
              group |-> SubSeq(t, i + 2, be)]
        ELSE [kind |-> "invalid", start |-> i, end |-> i, group |-> <<>>]

---------------------------------------------------------------------------
(* convert *)

\* s.startswith(p)
StartsWith(s, p) == Len(p) <= Len(s) /\ SubSeq(s, 1, Len(p)) = p

RECURSIVE Find(_, _, _)
\* The first index >= i at which sub occurs in s, 0 if none.
Find(s, sub, i) ==
    IF i + Len(sub) - 1 > Len(s) THEN 0
    ELSE IF SubSeq(s, i, i + Len(sub) - 1) = sub THEN i
    ELSE Find(s, sub, i + 1)

\* sub in s
Contains(s, sub) == Find(s, sub, 1) # 0

\* var, _, default = s.partition(sep), for sep in s
Partition(s, sep) ==
    LET i == Find(s, sep, 1)
    IN  [var |-> SubSeq(s, 1, i - 1),
         default |-> SubSeq(s, i + Len(sep), Len(s))]

\* mapping.get(k, d)
Get(m, k, d) == IF k \in DOMAIN m THEN m[k] ELSE d

\* ResolveDefault looking the operand up with its "$".
ResolveDefaultWhole(m, default) ==
    IF StartsWith(default, <<"$">>) THEN Get(m, default, <<>>)
    ELSE default

\* if default.startswith("$"): default = mapping.get(default[1:], "")
ResolveDefault(m, default) ==
    IF StartsWith(default, <<"$">>) THEN Get(m, Tail(default), <<>>)
    ELSE default

\* GetOr written as mapping.get(var, default).
GetOrAbsent(m, var, default) == Get(m, var, default)

\* mapping.get(var) or default
GetOr(m, var, default) ==
    IF var \in DOMAIN m /\ m[var] # <<>> THEN m[var] ELSE default

\* convert returning the matched text for the escape.
delimiter_pair == <<"$", "$">>

\* self.delimiter
delimiter == <<"$">>

\* mo.group("named") or mo.group("braced") is not None
IsNamed(mo) == mo.kind \in {"named", "braced"}

\* keep_string and named.startswith(keep_string)
Kept(named) == keep_string # <<>> /\ StartsWith(named, keep_string)

---------------------------------------------------------------------------
(* The state machine *)

Init ==
    /\ mapping \in Mappings
    /\ string = <<>>
    /\ keep_string = <<>>
    /\ template = <<>>
    /\ pos = 1
    /\ buf = <<>>
    /\ status = "idle"
    /\ result = <<>>
    /\ exc = <<>>
    /\ calls = 0

\* interpolate(s, k): self.templater(string).substitute(...) starts.
Start(s, k) ==
    /\ string' = s
    /\ keep_string' = k
    /\ template' = s
    /\ pos' = 1
    /\ buf' = <<>>
    /\ status' = "scanning"
    /\ result' = <<>>
    /\ exc' = <<>>
    /\ calls' = calls + 1
    /\ UNCHANGED mapping

interpolate ==
    /\ status = "idle"
    /\ \E s \in Templates, k \in KeepStrings : Start(s, k)

\* A later call on the same Interpolator, fed the previous call's output.
interpolate_again ==
    /\ status = "returned"
    /\ calls < MaxCalls
    /\ \E k \in KeepStrings : Start(result[1], k)

\* Emit scanning convert's return value again: it is put in the template
\* in place of the match and the search resumes at its start.
EmitRescan(mo, repl) ==
    /\ buf' = buf \o SubSeq(template, pos, mo.start - 1)
    /\ template' = SubSeq(template, 1, mo.start - 1) \o repl
                      \o SubSeq(template, mo.end + 1, Len(template))
    /\ pos' = mo.start
    /\ UNCHANGED <<mapping, string, keep_string, status, result, exc, calls>>

\* re.sub: the text before the match, then convert's return value, are
\* appended; the search resumes after the match.
Emit(mo, repl) ==
    /\ buf' = buf \o SubSeq(template, pos, mo.start - 1) \o repl
    /\ pos' = mo.end + 1
    /\ UNCHANGED <<mapping, string, keep_string, template, status, result,
                   exc, calls>>

convert_keep_string ==
    /\ status = "scanning"
    /\ LET mo == pattern(template, pos)
       IN  /\ IsNamed(mo)
           /\ Kept(mo.group)
           /\ Emit(mo, <<"$">> \o mo.group)

convert_default_if_empty ==
    /\ status = "scanning"
    /\ LET mo == pattern(template, pos)
       IN  /\ IsNamed(mo)
           /\ ~Kept(mo.group)
           /\ Contains(mo.group, <<":", "-">>)
           /\ LET p == Partition(mo.group, <<":", "-">>)
              IN  Emit(mo, GetOr(mapping, p.var,
                                 ResolveDefault(mapping, p.default)))

convert_default_if_unset ==
    /\ status = "scanning"
    /\ LET mo == pattern(template, pos)
       IN  /\ IsNamed(mo)
           /\ ~Kept(mo.group)
           /\ ~Contains(mo.group, <<":", "-">>)
           /\ Contains(mo.group, <<"-">>)
           /\ LET p == Partition(mo.group, <<"-">>)
              IN  Emit(mo, Get(mapping, p.var,
                               ResolveDefault(mapping, p.default)))

convert_named ==
    /\ status = "scanning"
    /\ LET mo == pattern(template, pos)
       IN  /\ IsNamed(mo)
           /\ ~Kept(mo.group)
           /\ ~Contains(mo.group, <<":", "-">>)
           /\ ~Contains(mo.group, <<"-">>)
           /\ Emit(mo, Get(mapping, mo.group, <<>>))

convert_escaped ==
    /\ status = "scanning"
    /\ LET mo == pattern(template, pos)
       IN  /\ mo.kind = "escaped"
           /\ Emit(mo, delimiter)

\* convert_invalid leaving the "$" in place, as safe_substitute does, so
\* that the call returns what it has.
convert_invalid_safe ==
    /\ status = "scanning"
    /\ LET mo == pattern(template, pos)
       IN  /\ mo.kind = "invalid"
           /\ status' = "returned"
           /\ result' = <<buf \o SubSeq(template, pos, Len(template))>>
           /\ UNCHANGED <<mapping, string, keep_string, template, pos, buf,
                          exc, calls>>

\* self._invalid(mo) raises ValueError (line and column of the "$"; the
\* texts have no line break, so the line is 1); interpolate wraps it.
convert_invalid ==
    /\ status = "scanning"
    /\ LET mo == pattern(template, pos)
       IN  /\ mo.kind = "invalid"
           /\ status' = "raised"
           /\ exc' = <<[string |-> string,
                        place |-> [lineno |-> 1, colno |-> mo.start]]>>
           /\ UNCHANGED <<mapping, string, keep_string, template, pos, buf,
                          result, calls>>

\* substitute_return without the text after the last match.
substitute_return_buf ==
    /\ status = "scanning"
    /\ pattern(template, pos).kind = "none"
    /\ status' = "returned"
    /\ result' = <<buf>>
    /\ UNCHANGED <<mapping, string, keep_string, template, pos, buf, exc,
                   calls>>

\* No further match: re.sub appends the rest and substitute returns.
substitute_return ==
    /\ status = "scanning"
    /\ pattern(template, pos).kind = "none"
    /\ status' = "returned"
    /\ result' = <<buf \o SubSeq(template, pos, Len(template))>>
    /\ UNCHANGED <<mapping, string, keep_string, template, pos, buf, exc,
                   calls>>

Next ==
    \/ interpolate
    \/ interpolate_again
    \/ convert_keep_string
    \/ convert_default_if_empty
    \/ convert_default_if_unset
    \/ convert_named
    \/ convert_escaped
    \/ convert_invalid
    \/ substitute_return

Spec == Init /\ [][Next]_vars

---------------------------------------------------------------------------
(* The statements checked.  They read the call's argument and its outcome *)
(* and spell the reference grammar out by positions in string.            *)

Terminal == status \in {"returned", "raised"}

HasDollar(s) == \E k \in 1..Len(s) : s[k] = "$"

IsIdentifier(s) ==
    /\ s # <<>>
    /\ IsIdStart(s[1])
    /\ \A k \in 2..Len(s) : IsIdCont(s[k])

Positions == 1..Len(string)

\* The index of the first "$" of string: where a reference with only
\* literal text before it starts.
FirstDollar ==
    {i \in Positions :
        string[i] = "$" /\ \A k \in 1..(i - 1) : string[k] # "$"}

\* The index of the first "}" of string after index i.
ClosingBrace(i) ==
    {j \in (i + 1)..Len(string) :
        string[j] = "}" /\ \A k \in (i + 1)..(j - 1) : string[k] # "}"}

\* string[i..j] is ${name op default}: the name has n characters, op comes
\* directly after it, the default (possibly empty) runs to the first "}".
IsBraced(i, n, op, j) ==
    /\ i + 2 + n + Len(op) <= j
    /\ j <= Len(string)
    /\ string[i] = "$"
    /\ string[i + 1] = "{"
    /\ IsIdentifier(SubSeq(string, i + 2, i + 1 + n))
    /\ SubSeq(string, i + 2 + n, i + 1 + n + Len(op)) = op
    /\ string[j] = "}"
    /\ \A k \in (i + 2)..(j - 1) : string[k] # "}"

NameOf(i, n) == SubSeq(string, i + 2, i + 1 + n)
DefaultOf(i, n, op, j) == SubSeq(string, i + 2 + n + Len(op), j - 1)

\* string[i..j] is the only place of string with a "$" outside it.
LiteralAround(i, j) ==
    /\ ~HasDollar(SubSeq(string, 1, i - 1))
    /\ ~HasDollar(SubSeq(string, j + 1, Len(string)))

\* The text around string[i..j] with e in its place.
Around(i, j, e) ==
    SubSeq(string, 1, i - 1) \o e \o SubSeq(string, j + 1, Len(string))

\* The keep prefix exempts the name.
Exempt(name) == keep_string # <<>> /\ StartsWith(name, keep_string)

\* A default operand as the claims resolve it: one lookup of what follows
\* a leading "$", the operand itself otherwise.
Operand(d) ==
    IF d # <<>> /\ d[1] = "$"
    THEN (IF Tail(d) \in DOMAIN mapping THEN mapping[Tail(d)] ELSE <<>>)
    ELSE d

Value(name) == IF name \in DOMAIN mapping THEN mapping[name] ELSE <<>>

Returned(s) == status = "returned" /\ result = <<s>>

COLON_DASH == <<":", "-">>
DASH == <<"-">>

---------------------------------------------------------------------------
\* C1: with a non-empty keep prefix, a reference whose name starts with the
\* prefix is emitted exactly as written, braces and default part included,
\* and a plain reference whose name does not start with it resolves to its
\* mapping value (the empty string if absent).
C1_KeepPassthrough ==
    \A i \in FirstDollar : \A j \in ClosingBrace(i) : \A n \in 1..(j - i - 2) :
        (/\ Terminal
         /\ keep_string # <<>>
         /\ LiteralAround(i, j)
         /\ \/ IsBraced(i, n, <<>>, j) /\ j = i + 2 + n
            \/ IsBraced(i, n, DASH, j) /\ DefaultOf(i, n, DASH, j) # <<>>
            \/ IsBraced(i, n, COLON_DASH, j)
                 /\ DefaultOf(i, n, COLON_DASH, j) # <<>>)
        => IF StartsWith(NameOf(i, n), keep_string)
           THEN Returned(string)
           ELSE j = i + 2 + n => Returned(Around(i, j, Value(NameOf(i, n))))

\* C2: ${name-default}, for any non-empty default up to the closing brace
\* (one containing ":-" or "-" included), yields the mapping value of name
\* whenever name is a key, even an empty value, and the resolved default
\* only when name is not a key.
C2_DefaultIfUnset ==
    \A i \in FirstDollar : \A j \in ClosingBrace(i) : \A n \in 1..(j - i - 2) :
        (/\ Terminal
         /\ LiteralAround(i, j)
         /\ IsBraced(i, n, DASH, j)
         /\ DefaultOf(i, n, DASH, j) # <<>>
         /\ ~Exempt(NameOf(i, n)))
        => Returned(Around(i, j,
               IF NameOf(i, n) \in DOMAIN mapping
               THEN mapping[NameOf(i, n)]
               ELSE Operand(DefaultOf(i, n, DASH, j))))

\* C3: ${name:-default} yields the mapping value of name when name is a key
\* with a non-empty value, and the resolved default when name is absent or
\* maps to the empty string.
C3_DefaultIfEmpty ==
    \A i \in FirstDollar : \A j \in ClosingBrace(i) : \A n \in 1..(j - i - 2) :
        (/\ Terminal
         /\ LiteralAround(i, j)
         /\ IsBraced(i, n, COLON_DASH, j)
         /\ DefaultOf(i, n, COLON_DASH, j) # <<>>
         /\ ~Exempt(NameOf(i, n)))
        => Returned(Around(i, j,
               IF NameOf(i, n) \in DOMAIN mapping
                  /\ mapping[NameOf(i, n)] # <<>>
               THEN mapping[NameOf(i, n)]
               ELSE Operand(DefaultOf(i, n, COLON_DASH, j))))

\* C3 witness: ${X:-Y} with X set to the empty string returned Y.
C3_Witness ==
    /\ string = <<"$", "{", "X", ":", "-", "Y", "}">>
    /\ <<"X">> \in DOMAIN mapping
    /\ mapping[<<"X">>] = <<>>
    /\ Returned(<<"Y">>)

\* C4: ${name-} and ${name:-} are valid references with the empty string as
\* default: interpolate returns the mapping value of name, or the empty
\* string, and does not fail.
C4_EmptyDefault ==
    \A i \in FirstDollar : \A j \in ClosingBrace(i) : \A n \in 1..(j - i - 2) :
        (/\ Terminal
         /\ LiteralAround(i, j)
         /\ \/ IsBraced(i, n, DASH, j) /\ j = i + 3 + n
            \/ IsBraced(i, n, COLON_DASH, j) /\ j = i + 4 + n
         /\ ~Exempt(NameOf(i, n)))
        => Returned(Around(i, j, Value(NameOf(i, n))))

\* C5: a bare $name covers the "$" and the identifier only and yields the
\* mapping value of name (the empty string if absent); the text around it,
\* "-suffix" included, is copied to the output unchanged.
C5_BareAndLiteral ==
    \A i \in FirstDollar, n \in Positions :
        (/\ Terminal
         /\ i + n <= Len(string)
         /\ string[i] = "$"
         /\ IsIdentifier(SubSeq(string, i + 1, i + n))
         /\ i + n < Len(string) => ~IsIdCont(string[i + n + 1])
         /\ LiteralAround(i, i + n)
         /\ ~Exempt(SubSeq(string, i + 1, i + n)))
        => Returned(Around(i, i + n, Value(SubSeq(string, i + 1, i + n))))

\* The first "$" of template at or after pos, 0 if there is none.
NextDollar ==
    IF \E k \in pos..Len(template) : template[k] = "$"
    THEN CHOOSE k \in pos..Len(template) :
             /\ template[k] = "$"
             /\ \A l \in pos..(k - 1) : template[l] # "$"
    ELSE 0

\* The "$" at index i of t is at the end of t, or is followed by a
\* character that is not "$", "{" or an identifier start, or opens an
\* unterminated ${, or is ${}.
InvalidAt(t, i) ==
    \/ i = Len(t)
    \/ /\ i < Len(t)
       /\ t[i + 1] \notin {"$", "{"}
       /\ ~IsIdStart(t[i + 1])
    \/ /\ i < Len(t)
       /\ t[i + 1] = "{"
       /\ \A k \in (i + 2)..Len(t) : t[k] # "}"
    \/ /\ i + 1 < Len(t)
       /\ t[i + 1] = "{"
       /\ t[i + 2] = "}"

C6_Step ==
    /\ (status = "scanning" /\ NextDollar # 0
          /\ InvalidAt(template, NextDollar))
       => /\ status' = "raised"
          /\ result' = <<>>
          /\ exc' = <<[string |-> string,
                       place |-> [lineno |-> 1, colno |-> NextDollar]]>>
    /\ status' = "raised"
       => /\ result' = <<>>
          /\ Len(exc') = 1
          /\ exc'[1].string = string'
    /\ status' = "returned" => exc' = <<>>

C7_Step ==
    (/\ status = "scanning"
     /\ NextDollar # 0
     /\ NextDollar < Len(template)
     /\ template[NextDollar + 1] = "$")
    => /\ status' = "scanning"
       /\ template' = template
       /\ buf' = buf \o SubSeq(template, pos, NextDollar - 1) \o <<"$">>
       /\ pos' = NextDollar + 2

C7_Whole ==
    \A i \in FirstDollar :
        (/\ Terminal
         /\ i < Len(string)
         /\ string[i] = "$"
         /\ string[i + 1] = "$"
         /\ LiteralAround(i, i + 1))
        => Returned(Around(i, i + 1, <<"$">>))

\* C7: when the scan comes to "$$" the pair is consumed as one token that
\* emits exactly one "$", whatever follows, and the scan resumes right after
\* the pair; a text whose only "$" are one such pair comes out with the
\* pair replaced by "$" and everything else unchanged, for every mapping.
C7_Escape == []C7_Whole /\ [][C7_Step]_vars

\* C7 witness: $$X with X in the mapping returned $X.
C7_Witness ==
    /\ string = <<"$", "$", "X">>
    /\ <<"X">> \in DOMAIN mapping
    /\ mapping[<<"X">>] = <<"v">>
    /\ Returned(<<"$", "X">>)

\* C8: a value taken from the mapping, or a default operand used as the
\* result, that contains "$" appears in the output unchanged: it triggers no
\* further lookup and no failure.
C8_SinglePass ==
    /\ \A i \in FirstDollar :
        (/\ Terminal
         /\ i < Len(string)
         /\ IsIdentifier(SubSeq(string, i + 1, Len(string)))
         /\ ~Exempt(SubSeq(string, i + 1, Len(string)))
         /\ SubSeq(string, i + 1, Len(string)) \in DOMAIN mapping
         /\ HasDollar(mapping[SubSeq(string, i + 1, Len(string))]))
        => Returned(Around(i, Len(string),
                           mapping[SubSeq(string, i + 1, Len(string))]))
    /\ \A i \in FirstDollar : \A j \in ClosingBrace(i) : \A n \in 1..(j - i - 2) :
        /\ (/\ Terminal
            /\ LiteralAround(i, j)
            /\ IsBraced(i, n, <<>>, j)
            /\ j = i + 2 + n
            /\ ~Exempt(NameOf(i, n))
            /\ NameOf(i, n) \in DOMAIN mapping
            /\ HasDollar(mapping[NameOf(i, n)]))
           => Returned(Around(i, j, mapping[NameOf(i, n)]))
        /\ (/\ Terminal
            /\ LiteralAround(i, j)
            /\ IsBraced(i, n, COLON_DASH, j)
            /\ ~Exempt(NameOf(i, n))
            /\ Value(NameOf(i, n)) = <<>>
            /\ DefaultOf(i, n, COLON_DASH, j) # <<>>
            /\ DefaultOf(i, n, COLON_DASH, j)[1] # "$"
            /\ HasDollar(DefaultOf(i, n, COLON_DASH, j)))
           => Returned(Around(i, j, DefaultOf(i, n, COLON_DASH, j)))

\* C8 witness: $Y with Y set to $X and X set to v returned $X.
C8_Witness ==
    /\ string = <<"$", "Y">>
    /\ DOMAIN mapping = Keys
    /\ mapping[<<"Y">>] = <<"$", "X">>
    /\ mapping[<<"X">>] = <<"v">>
    /\ Returned(<<"$", "X">>)

\* The unset rule for "-" and the empty rule for ":-", given the resolved
\* default operand.
Rule(op, name, resolved) ==
    IF op = DASH
    THEN (IF name \in DOMAIN mapping THEN mapping[name] ELSE resolved)
    ELSE (IF name \in DOMAIN mapping /\ mapping[name] # <<>>
          THEN mapping[name] ELSE resolved)

\* C9: in ${name-$OTHER} and ${name:-$OTHER} the operand is resolved by one
\* mapping lookup of OTHER, without expanding the value found, to the empty
\* string if the lookup misses (the operand "$" alone included); the
\* resolved operand is then used by the unset or empty rule.
C9_VariableDefault ==
    \A i \in FirstDollar : \A j \in ClosingBrace(i) : \A n \in 1..(j - i - 2) :
        \A op \in {DASH, COLON_DASH} :
            (/\ Terminal
             /\ LiteralAround(i, j)
             /\ IsBraced(i, n, op, j)
             /\ ~Exempt(NameOf(i, n))
             /\ DefaultOf(i, n, op, j) # <<>>
             /\ DefaultOf(i, n, op, j)[1] = "$"
             /\ \/ Len(DefaultOf(i, n, op, j)) = 1
                \/ IsIdentifier(Tail(DefaultOf(i, n, op, j))))
            => Returned(Around(i, j,
                   Rule(op, NameOf(i, n),
                        Value(Tail(DefaultOf(i, n, op, j))))))

\* C9 witness: ${X-$Y} with X unset and Y set to $X returned $X.
C9_Witness ==
    /\ string = <<"$", "{", "X", "-", "$", "Y", "}">>
    /\ DOMAIN mapping = {<<"Y">>}
    /\ mapping[<<"Y">>] = <<"$", "X">>
    /\ Returned(<<"$", "X">>)

\* C10: a text with no "$" is returned unchanged, for every mapping and
\* keep prefix, and the call never fails; so a second call on an output
\* with no "$" changes nothing.
C10_DollarFreeIdentity ==
    ~HasDollar(string)
    => /\ status # "raised"
       /\ status = "scanning" => ENABLED substitute_return
       /\ status = "returned" => result = <<string>>

\* C10 witness: a second call, with a keep prefix, on a non-empty output
\* with no "$" returned it unchanged.
C10_Witness ==
    /\ calls = 2
    /\ keep_string # <<>>
    /\ string # <<>>
    /\ ~HasDollar(string)
    /\ Returned(string)

====
